---- MODULE Spec2Model ----
(***************************************************************************)
(* Balance service: accounts with balances, transfers between accounts,    *)
(* deposit and withdraw, registration.  The model follows the request      *)
(* handlers of app/routes.py and the storage routines of app/crud.py, one  *)
(* action per database statement a handler awaits.  The store is           *)
(* PostgreSQL at READ COMMITTED: a plain SELECT reads the last committed   *)
(* row and never waits; SELECT ... FOR UPDATE and UPDATE wait while        *)
(* another transaction holds the row lock; statements run outside          *)
(* connection.transaction() commit on their own.                           *)
(*                                                                         *)
(* Money is counted in cents (scale 2).  Amounts arrive in mills (scale 3) *)
(* so that the request validators' quantize(Decimal('0.01')) has something *)
(* to round.                                                               *)
(***************************************************************************)
EXTENDS Integers, Sequences, FiniteSets, TLC

\* ---------------------------------------------------------------- bounds
\* concurrent requests; each request slot serves one request
NProcs == 2
\* largest balance an account starts with, in cents
MaxInitBalance == 1

Procs == 1..NProcs
\* usernames a client may send; the accounts present at start have usernames
\* 1 and 2, username 3 belongs to nobody until it is registered
Names == {1, 2, 3}
\* amounts a client may send, in mills: -0.01 and 0 (rejected), 0.004, 0.01
RawAmounts == {-10, 0, 4, 10}
\* initial balances a client may send on registration, in cents
RawInitialBalances == {-1, 1}
NoUser == 0
NoRecord == <<>>

VARIABLES
    balance,        \* users.balance, committed: [id -> cents]
    username,       \* users.username, committed: [id -> name]
    users_id_seq,   \* next value of the SERIAL users.id
    transfers,      \* transfers table, committed, in commit order
    transfers_id_seq, \* next value of the SERIAL transfers.id
    initial,        \* total of the balances at start (never changes)
    initial_balance, \* users.balance at start: [id -> cents] (never changes)
    pc,             \* statement each request is at
    kind,           \* "transfer" | "deposit" | "withdraw" | "register"
    current_user,   \* id the request authenticated as
    to_username,    \* TransferRequest.to_username / UserCreate.username
    amount,         \* validated amount, cents (initial_balance for register)
    recipient,      \* id found by get_user_by_username
    read_balance,   \* sender_balance / current_balance read by the request
    held,           \* row locks of the request's transaction, in order taken
    tx_writes,      \* uncommitted row versions of the transaction
    tx_insert,      \* uncommitted transfers row of the transaction
    conn,           \* the request holds a connection of the pool across awaits
    tx_start,       \* the store's clock when the request's transaction began
    now,            \* the store's clock
    status,         \* HTTP status of the response, 0 while running
    detail,         \* which error / which body the response carries
    result,         \* balance or transfer record returned on success
    wrote           \* history: the request committed a change

dbVars == <<balance, username, users_id_seq, transfers, transfers_id_seq, initial,
            initial_balance, now>>
reqVars == <<kind, current_user, to_username, amount>>
txVars == <<held, tx_writes, tx_insert, conn, tx_start>>
respVars == <<status, detail, result>>
vars == <<balance, username, users_id_seq, transfers, transfers_id_seq, initial,
          initial_balance, pc, kind, current_user, to_username, amount, recipient, read_balance,
          held, tx_writes, tx_insert, conn, tx_start, now, status, detail, result,
          wrote>>

\* asyncpg.create_pool(..., max_size=10): the connections of the pool
max_size == 10

\* ---------------------------------------------------------------- helpers
Range(s) == {s[i] : i \in 1..Len(s)}

RECURSIVE SumOver(_, _)
SumOver(f, S) ==
    IF S = {} THEN 0
    ELSE LET x == CHOOSE y \in S : TRUE IN f[x] + SumOver(f, S \ {x})

Accounts == DOMAIN balance

TotalBalance == SumOver(balance, Accounts)

\* v.quantize(Decimal('0.01')): mills to cents, rounding half to even
Quantize(v) ==
    LET q == v \div 10
        r == v % 10
    IN IF r > 5 \/ (r = 5 /\ q % 2 = 1) THEN q + 1 ELSE q

\* mutant: the amount field declared with ge=0 and checked with `v < 0`
ValidAmountNonNegative(v) == v >= 0

\* Field(..., gt=0) and the validator's `if v <= 0: raise`
ValidAmount(v) == v > 0

\* UserCreate.initial_balance: Field(ge=0)
ValidInitialBalance(b) == b >= 0

\* CHECK (balance >= 0) of the users table
BalanceCheck(b) == b >= 0

\* mutant: the transfers table created without its CHECK (amount > 0)
TransferCheckNoAmount(rec) == rec.from_user_id # rec.to_user_id

\* CHECK (amount > 0) and CHECK (from_user_id != to_user_id) of transfers
TransferCheck(rec) == rec.amount > 0 /\ rec.from_user_id # rec.to_user_id

\* SELECT ... FROM users WHERE username = $1
UserByUsername(name) ==
    IF \E u \in Accounts : username[u] = name
    THEN CHOOSE u \in Accounts : username[u] = name
    ELSE NoUser

\* GET /users/me: the users row that authenticate_user selects for account u
Profile(u) == [id |-> u, username |-> username[u], balance |-> balance[u]]

\* a row lock is free for p when no other transaction holds it
LockFree(a, p) == \A q \in Procs \ {p} : a \notin Range(held[q])

\* mutant: the comparison written as <=
InsufficientFundsOffByOne(bal, amt) == bal <= amt

\* `sender_balance < amount` / `current_balance < withdraw_data.amount`
InsufficientFunds(bal, amt) == bal < amt

\* the row version a statement of p's transaction sees: its own last write,
\* else the committed row
RECURSIVE LastWrite(_, _, _)
LastWrite(ws, a, dflt) ==
    IF ws = <<>> THEN dflt
    ELSE IF ws[Len(ws)][1] = a THEN ws[Len(ws)][2]
    ELSE LastWrite(SubSeq(ws, 1, Len(ws) - 1), a, dflt)

RowBalance(p, a) == LastWrite(tx_writes[p], a, balance[a])

\* COMMIT: the transaction's row versions become the committed rows
RECURSIVE ApplyWrites(_, _)
ApplyWrites(bal, ws) ==
    IF ws = <<>> THEN bal
    ELSE ApplyWrites([bal EXCEPT ![ws[1][1]] = ws[1][2]], Tail(ws))

\* Request slots are interchangeable: slot p takes a request once the slots
\* before it have taken theirs.
NextSlot(p) == pc[p] = "idle" /\ \A q \in Procs : q < p => pc[q] # "idle"

\* the response of a finished request; the handler's locals are gone
Respond(p, st, dt, res) ==
    /\ pc' = [pc EXCEPT ![p] = "done"]
    /\ status' = [status EXCEPT ![p] = st]
    /\ detail' = [detail EXCEPT ![p] = dt]
    /\ result' = [result EXCEPT ![p] = res]
    /\ recipient' = [recipient EXCEPT ![p] = NoUser]
    /\ read_balance' = [read_balance EXCEPT ![p] = 0]

\* the handler goes on to its next statement
Goto(p, next) ==
    /\ pc' = [pc EXCEPT ![p] = next]
    /\ UNCHANGED respVars

\* mutant: the connection is taken with `await pool.acquire()` and released
\* only at the end of the normal path, so an exception rolls the transaction
\* back but keeps the connection
RollbackKeepsConnection(p) ==
    /\ held' = [held EXCEPT ![p] = <<>>]
    /\ tx_writes' = [tx_writes EXCEPT ![p] = <<>>]
    /\ tx_insert' = [tx_insert EXCEPT ![p] = NoRecord]
    /\ conn' = conn
    /\ tx_start' = tx_start

\* leaving `async with connection.transaction()` by an exception: ROLLBACK,
\* the row locks are released and nothing of the transaction is kept; then
\* `async with self.pool.acquire()` gives the connection back
Rollback(p) ==
    /\ held' = [held EXCEPT ![p] = <<>>]
    /\ tx_writes' = [tx_writes EXCEPT ![p] = <<>>]
    /\ tx_insert' = [tx_insert EXCEPT ![p] = NoRecord]
    /\ conn' = [conn EXCEPT ![p] = FALSE]
    /\ tx_start' = [tx_start EXCEPT ![p] = 0]

\* ---------------------------------------------------------------- init
Init ==
    /\ balance \in [{1, 2} -> 0..MaxInitBalance]
    \* the two accounts are interchangeable: the first is the richer one
    /\ balance[1] >= balance[2]
    /\ username = [u \in {1, 2} |-> u]
    /\ users_id_seq = 3
    /\ transfers = <<>>
    /\ transfers_id_seq = 1
    /\ initial = balance[1] + balance[2]
    /\ initial_balance = balance
    /\ pc = [p \in Procs |-> "idle"]
    /\ kind = [p \in Procs |-> "none"]
    /\ current_user = [p \in Procs |-> NoUser]
    /\ to_username = [p \in Procs |-> 0]
    /\ amount = [p \in Procs |-> 0]
    /\ recipient = [p \in Procs |-> NoUser]
    /\ read_balance = [p \in Procs |-> 0]
    /\ held = [p \in Procs |-> <<>>]
    /\ tx_writes = [p \in Procs |-> <<>>]
    /\ tx_insert = [p \in Procs |-> NoRecord]
    /\ conn = [p \in Procs |-> FALSE]
    /\ tx_start = [p \in Procs |-> 0]
    /\ now = 0
    /\ status = [p \in Procs |-> 0]
    /\ detail = [p \in Procs |-> "none"]
    /\ result = [p \in Procs |-> NoRecord]
    /\ wrote = [p \in Procs |-> FALSE]

\* ---------------------------------------------------------------- requests
\* mutant: the body is validated before the credentials are checked
ArriveValidatesFirst(p, k, name, to, raw, first) ==
    /\ NextSlot(p)
    /\ kind' = [kind EXCEPT ![p] = k]
    /\ LET user == UserByUsername(name) IN
        /\ current_user' = [current_user EXCEPT ![p] = user]
        /\ IF ~ValidAmount(raw)
           THEN /\ UNCHANGED <<to_username, amount>>
                /\ Respond(p, 422, "amount", NoRecord)
           ELSE IF user = NoUser
           THEN /\ UNCHANGED <<to_username, amount>>
                /\ Respond(p, 401, "credentials", NoRecord)
           ELSE /\ to_username' = [to_username EXCEPT ![p] = to]
                /\ amount' = [amount EXCEPT ![p] = Quantize(raw)]
                /\ IF k = "transfer" /\ to = username[user]
                   THEN Respond(p, 400, "self_transfer", NoRecord)
                   ELSE /\ Goto(p, first)
                        /\ UNCHANGED <<recipient, read_balance>>
    /\ UNCHANGED <<dbVars, txVars, wrote>>

\* A request arrives: get_current_user authenticates it (401 when the
\* credentials match no account), then the body is validated (422), then the
\* handler starts.
Arrive(p, k, name, to, raw, first) ==
    /\ NextSlot(p)
    /\ kind' = [kind EXCEPT ![p] = k]
    /\ LET user == UserByUsername(name) IN
        /\ current_user' = [current_user EXCEPT ![p] = user]
        /\ IF user = NoUser
           THEN /\ UNCHANGED <<to_username, amount>>
                /\ Respond(p, 401, "credentials", NoRecord)
           ELSE IF ~ValidAmount(raw)
           THEN /\ UNCHANGED <<to_username, amount>>
                /\ Respond(p, 422, "amount", NoRecord)
           ELSE /\ to_username' = [to_username EXCEPT ![p] = to]
                /\ amount' = [amount EXCEPT ![p] = Quantize(raw)]
                /\ IF k = "transfer" /\ to = username[user]
                   THEN Respond(p, 400, "self_transfer", NoRecord)
                   ELSE /\ Goto(p, first)
                        /\ UNCHANGED <<recipient, read_balance>>
    /\ UNCHANGED <<dbVars, txVars, wrote>>

\* POST /transfers/ up to the self-transfer check
TransferArrives(p) ==
    \E name \in Names, to \in Names, raw \in RawAmounts :
        Arrive(p, "transfer", name, to, raw, "lookup_recipient")

\* POST /balance/deposit
DepositArrives(p) ==
    \E name \in Names, raw \in RawAmounts :
        Arrive(p, "deposit", name, 0, raw, "deposit_get_balance")

\* POST /balance/withdraw
WithdrawArrives(p) ==
    \E name \in Names, raw \in RawAmounts :
        Arrive(p, "withdraw", name, 0, raw, "withdraw_get_balance")

\* ---------------------------------------------------------------- transfer
\* mutant: the missing recipient reported with HTTP_400_BAD_REQUEST
LookupRecipientBadRequest(p) ==
    /\ pc[p] = "lookup_recipient"
    /\ LET r == UserByUsername(to_username[p]) IN
        IF r = NoUser
        THEN /\ Respond(p, 400, "recipient_not_found", NoRecord)
             /\ UNCHANGED <<conn, tx_start>>
        ELSE /\ recipient' = [recipient EXCEPT ![p] = r]
             /\ conn' = [conn EXCEPT ![p] = TRUE]
             /\ tx_start' = [tx_start EXCEPT ![p] = now]
             /\ Goto(p, "lock_sender")
             /\ UNCHANGED read_balance
    /\ UNCHANGED <<dbVars, reqVars, held, tx_writes, tx_insert, wrote>>

\* recipient = await user_crud.get_user_by_username(to_username); on success
\* create_transfer takes a connection and opens its transaction
LookupRecipient(p) ==
    /\ pc[p] = "lookup_recipient"
    /\ LET r == UserByUsername(to_username[p]) IN
        IF r = NoUser
        THEN /\ Respond(p, 404, "recipient_not_found", NoRecord)
             /\ UNCHANGED <<conn, tx_start>>
        ELSE /\ recipient' = [recipient EXCEPT ![p] = r]
             /\ conn' = [conn EXCEPT ![p] = TRUE]
             /\ tx_start' = [tx_start EXCEPT ![p] = now]
             /\ Goto(p, "lock_sender")
             /\ UNCHANGED read_balance
    /\ UNCHANGED <<dbVars, reqVars, held, tx_writes, tx_insert, wrote>>

\* mutant: the receiver is credited by a statement of its own, committed at
\* once, before the sender's row is locked and checked
LockSenderAfterCredit(p) ==
    /\ pc[p] = "lock_sender"
    /\ LET s == current_user[p] IN
        /\ LockFree(s, p)
        /\ balance' = [balance EXCEPT ![recipient[p]] = @ + amount[p]]
        /\ wrote' = [wrote EXCEPT ![p] = TRUE]
        /\ IF InsufficientFunds(balance[s], amount[p])
           THEN /\ Rollback(p)
                /\ Respond(p, 400, "insufficient_funds", NoRecord)
           ELSE /\ read_balance' = [read_balance EXCEPT ![p] = balance[s]]
                /\ held' = [held EXCEPT ![p] = Append(@, s)]
                /\ Goto(p, "lock_receiver")
                /\ UNCHANGED <<tx_writes, tx_insert, conn, tx_start, recipient>>
    /\ UNCHANGED <<username, users_id_seq, transfers, transfers_id_seq, initial,
                   initial_balance, now, reqVars>>

\* mutant: the sender is debited as soon as its balance is found sufficient,
\* by a statement committed at once, before the receiver's row is locked
LockSenderDebits(p) ==
    /\ pc[p] = "lock_sender"
    /\ LET s == current_user[p] IN
        /\ LockFree(s, p)
        /\ IF InsufficientFunds(balance[s], amount[p])
           THEN /\ Rollback(p)
                /\ Respond(p, 400, "insufficient_funds", NoRecord)
                /\ UNCHANGED <<balance, wrote>>
           ELSE /\ read_balance' = [read_balance EXCEPT ![p] = balance[s]]
                /\ balance' = [balance EXCEPT ![s] = @ - amount[p]]
                /\ wrote' = [wrote EXCEPT ![p] = TRUE]
                /\ held' = [held EXCEPT ![p] = Append(@, s)]
                /\ Goto(p, "lock_receiver")
                /\ UNCHANGED <<tx_writes, tx_insert, conn, tx_start, recipient>>
    /\ UNCHANGED <<username, users_id_seq, transfers, transfers_id_seq, initial,
                   initial_balance, now, reqVars>>

\* SELECT balance FROM users WHERE id = $1 FOR UPDATE (sender), then the
\* checks on the row
LockSender(p) ==
    /\ pc[p] = "lock_sender"
    /\ LET s == current_user[p] IN
        IF s \notin Accounts
        THEN /\ Rollback(p)
             /\ Respond(p, 400, "sender_not_found", NoRecord)
        ELSE /\ LockFree(s, p)
             /\ IF InsufficientFunds(balance[s], amount[p])
                THEN /\ Rollback(p)
                     /\ Respond(p, 400, "insufficient_funds", NoRecord)
                ELSE /\ read_balance' = [read_balance EXCEPT ![p] = balance[s]]
                     /\ held' = [held EXCEPT ![p] = Append(@, s)]
                     /\ Goto(p, "lock_receiver")
                     /\ UNCHANGED <<tx_writes, tx_insert, conn, tx_start, recipient>>
    /\ UNCHANGED <<dbVars, reqVars, wrote>>

\* SELECT id FROM users WHERE id = $1 FOR UPDATE (receiver)
LockReceiver(p) ==
    /\ pc[p] = "lock_receiver"
    /\ LET r == recipient[p] IN
        IF r \notin Accounts
        THEN /\ Rollback(p)
             /\ Respond(p, 400, "receiver_not_found", NoRecord)
        ELSE /\ LockFree(r, p)
             /\ held' = [held EXCEPT ![p] = Append(@, r)]
             /\ Goto(p, "debit")
             /\ UNCHANGED <<tx_writes, tx_insert, conn, tx_start, recipient, read_balance>>
    /\ UNCHANGED <<dbVars, reqVars, wrote>>

\* UPDATE users SET balance = balance + delta WHERE id = a, inside the
\* transaction; the users table's CHECK is evaluated on the new row
UpdateInTx(p, a, delta, next) ==
    LET new == RowBalance(p, a) + delta IN
    IF BalanceCheck(new)
    THEN /\ LockFree(a, p)
         /\ tx_writes' = [tx_writes EXCEPT ![p] = Append(@, <<a, new>>)]
         /\ Goto(p, next)
         /\ UNCHANGED <<held, tx_insert, conn, tx_start, recipient, read_balance>>
    ELSE /\ Rollback(p)
         /\ Respond(p, 500, "check_violation", NoRecord)

\* mutant: the debit runs outside the transaction and is committed at once
DebitAutocommit(p) ==
    /\ pc[p] = "debit"
    /\ balance' = [balance EXCEPT ![current_user[p]] = @ - amount[p]]
    /\ wrote' = [wrote EXCEPT ![p] = TRUE]
    /\ Goto(p, "credit")
    /\ UNCHANGED <<username, users_id_seq, transfers, transfers_id_seq, initial,
                   initial_balance, now, reqVars, recipient, read_balance, txVars>>

\* UPDATE users SET balance = balance - $2 WHERE id = $1 (sender)
Debit(p) ==
    /\ pc[p] = "debit"
    /\ UpdateInTx(p, current_user[p], 0 - amount[p], "credit")
    /\ UNCHANGED <<dbVars, reqVars, wrote>>

\* mutant: the credit written with the debit's sign, balance = balance - $2
CreditWrongSign(p) ==
    /\ pc[p] = "credit"
    /\ UpdateInTx(p, recipient[p], 0 - amount[p], "insert_transfer")
    /\ UNCHANGED <<dbVars, reqVars, wrote>>

\* UPDATE users SET balance = balance + $2 WHERE id = $1 (receiver)
Credit(p) ==
    /\ pc[p] = "credit"
    /\ UpdateInTx(p, recipient[p], amount[p], "insert_transfer")
    /\ UNCHANGED <<dbVars, reqVars, wrote>>

\* INSERT INTO transfers ... RETURNING ...; the SERIAL id is drawn before the
\* table's CHECKs are evaluated and is not given back on failure
InsertTransfer(p) ==
    /\ pc[p] = "insert_transfer"
    /\ LET rec == [id |-> transfers_id_seq,
                   from_user_id |-> current_user[p],
                   to_user_id |-> recipient[p],
                   amount |-> amount[p],
                   created_at |-> tx_start[p]] IN
        IF TransferCheck(rec)
        THEN /\ tx_insert' = [tx_insert EXCEPT ![p] = rec]
             /\ Goto(p, "commit")
             /\ UNCHANGED <<held, tx_writes, conn, tx_start, recipient, read_balance>>
        ELSE /\ Rollback(p)
             /\ Respond(p, 500, "check_violation", NoRecord)
    /\ transfers_id_seq' = transfers_id_seq + 1
    /\ UNCHANGED <<balance, username, users_id_seq, transfers, initial,
                   initial_balance, now, reqVars, wrote>>

\* mutant: the ledger row is written as an upsert keyed on the pair of
\* accounts, so a later transfer between the same two accounts replaces the
\* earlier record
CommitUpsert(p) ==
    /\ pc[p] = "commit"
    /\ balance' = ApplyWrites(balance, tx_writes[p])
    /\ transfers' =
           Append(SelectSeq(transfers,
                            LAMBDA r : {r.from_user_id, r.to_user_id} #
                                       {tx_insert[p].from_user_id,
                                        tx_insert[p].to_user_id}),
                  tx_insert[p])
    /\ result' = [result EXCEPT ![p] = tx_insert[p]]
    /\ held' = [held EXCEPT ![p] = <<>>]
    /\ tx_writes' = [tx_writes EXCEPT ![p] = <<>>]
    /\ tx_insert' = [tx_insert EXCEPT ![p] = NoRecord]
    /\ conn' = [conn EXCEPT ![p] = FALSE]
    /\ tx_start' = [tx_start EXCEPT ![p] = 0]
    /\ wrote' = [wrote EXCEPT ![p] = TRUE]
    /\ pc' = [pc EXCEPT ![p] = "get_transfer"]
    /\ recipient' = [recipient EXCEPT ![p] = NoUser]
    /\ read_balance' = [read_balance EXCEPT ![p] = 0]
    /\ UNCHANGED <<username, users_id_seq, transfers_id_seq, initial,
                   initial_balance, now, reqVars,
                   status, detail>>

\* mutant: the route's get_transfer_by_id is called inside create_transfer's
\* `async with db.get_connection()` block, after the transaction block: the
\* transaction commits but its connection is still held
CommitKeepsConnection(p) ==
    /\ pc[p] = "commit"
    /\ balance' = ApplyWrites(balance, tx_writes[p])
    /\ transfers' = Append(transfers, tx_insert[p])
    /\ result' = [result EXCEPT ![p] = tx_insert[p]]
    /\ held' = [held EXCEPT ![p] = <<>>]
    /\ tx_writes' = [tx_writes EXCEPT ![p] = <<>>]
    /\ tx_insert' = [tx_insert EXCEPT ![p] = NoRecord]
    /\ conn' = conn
    /\ tx_start' = [tx_start EXCEPT ![p] = 0]
    /\ wrote' = [wrote EXCEPT ![p] = TRUE]
    /\ pc' = [pc EXCEPT ![p] = "get_transfer"]
    /\ recipient' = [recipient EXCEPT ![p] = NoUser]
    /\ read_balance' = [read_balance EXCEPT ![p] = 0]
    /\ UNCHANGED <<username, users_id_seq, transfers_id_seq, initial,
                   initial_balance, now, reqVars,
                   status, detail>>

\* leaving `async with connection.transaction()` normally: COMMIT
Commit(p) ==
    /\ pc[p] = "commit"
    /\ balance' = ApplyWrites(balance, tx_writes[p])
    /\ transfers' = Append(transfers, tx_insert[p])
    /\ result' = [result EXCEPT ![p] = tx_insert[p]]
    /\ held' = [held EXCEPT ![p] = <<>>]
    /\ tx_writes' = [tx_writes EXCEPT ![p] = <<>>]
    /\ tx_insert' = [tx_insert EXCEPT ![p] = NoRecord]
    /\ conn' = [conn EXCEPT ![p] = FALSE]
    /\ tx_start' = [tx_start EXCEPT ![p] = 0]
    /\ wrote' = [wrote EXCEPT ![p] = TRUE]
    /\ pc' = [pc EXCEPT ![p] = "get_transfer"]
    /\ recipient' = [recipient EXCEPT ![p] = NoUser]
    /\ read_balance' = [read_balance EXCEPT ![p] = 0]
    /\ UNCHANGED <<username, users_id_seq, transfers_id_seq, initial,
                   initial_balance, now, reqVars,
                   status, detail>>

\* the row get_transfer_by_id selects for ledger record t: the record joined
\* with the usernames of its sender and its receiver
TransferResponse(t) ==
    [id |-> t.id, amount |-> t.amount, created_at |-> t.created_at,
     from_username |-> username[t.from_user_id],
     to_username |-> username[t.to_user_id]]

\* mutant: the list selects only the transfers the user has sent
SentTransfers(user_id) ==
    {i \in 1..Len(transfers) : transfers[i].from_user_id = user_id}

\* WHERE t.from_user_id = $1 OR t.to_user_id = $1: the positions in the ledger
\* of the transfers of user_id
UserTransfers(user_id) ==
    {i \in 1..Len(transfers) :
        transfers[i].from_user_id = user_id \/ transfers[i].to_user_id = user_id}

\* ORDER BY t.created_at DESC: the orders the store may return the selected
\* rows in; rows of equal created_at come in any order
Orderings(S) ==
    {f \in [1..Cardinality(S) -> S] :
        /\ \A j, k \in DOMAIN f : j # k => f[j] # f[k]
        /\ \A j, k \in DOMAIN f :
              j < k => transfers[f[j]].created_at >= transfers[f[k]].created_at}

\* LIMIT $2 OFFSET $3 of an ordered result
Window(f, limit, offset) ==
    [k \in 1..(IF Len(f) - offset < limit
               THEN (IF Len(f) < offset THEN 0 ELSE Len(f) - offset)
               ELSE limit) |-> f[offset + k]]

\* transfer_crud.get_user_transfers(user_id, limit, offset): the lists of
\* TransferResponse rows the call may return in the current state
get_user_transfers(user_id, limit, offset) ==
    {[k \in DOMAIN Window(f, limit, offset) |->
         TransferResponse(transfers[Window(f, limit, offset)[k]])] :
     f \in Orderings(UserTransfers(user_id))}

\* A path parameter transfer_id is an integer of any size, given here by two
\* limbs, high * LimbBase + low; transfers.id is SERIAL, a 4-byte integer,
\* and the driver encodes the query argument compared with it as one: an
\* argument of 2^31 or more is refused before the query is sent
LimbBase == 65536

Int4HighLimit == 32768

PathId(high, low) == [high |-> high, low |-> low]

FitsInt4(x) == x.high < Int4HighLimit

IdValue(x) == x.high * LimbBase + x.low

\* GET /transfers/{transfer_id} by the authenticated user user_id: the status
\* and the body of the answer.  The three SELECTs of the handler read rows
\* that never change once they exist.
get_transfer_by_id(user_id, transfer_id) ==
    IF ~FitsInt4(transfer_id)
    THEN [status |-> 500, body |-> NoRecord]
    ELSE LET found == {i \in 1..Len(transfers) :
                          transfers[i].id = IdValue(transfer_id)} IN
         IF found = {}
         THEN [status |-> 404, body |-> NoRecord]
         ELSE LET transfer == TransferResponse(transfers[CHOOSE i \in found : TRUE])
                  sender == UserByUsername(transfer.from_username)
                  receiver == UserByUsername(transfer.to_username)
              IN IF \/ sender = NoUser \/ receiver = NoUser
                    \/ (user_id # sender /\ user_id # receiver)
                 THEN [status |-> 403, body |-> NoRecord]
                 ELSE [status |-> 200, body |-> transfer]

\* mutant: the route answers with the newest ledger record instead of the one
\* whose id create_transfer returned
GetTransferLatest(p) ==
    /\ pc[p] = "get_transfer"
    /\ IF transfers = <<>>
       THEN Respond(p, 500, "no_response", NoRecord)
       ELSE Respond(p, 201, "transfer", TransferResponse(transfers[Len(transfers)]))
    /\ UNCHANGED <<dbVars, reqVars, txVars, wrote>>

\* transfer_crud.get_transfer_by_id(transfer.id), returned with 201
GetTransfer(p) ==
    /\ pc[p] = "get_transfer"
    /\ LET found == {i \in 1..Len(transfers) : transfers[i].id = result[p].id} IN
        IF found = {}
        THEN Respond(p, 500, "no_response", NoRecord)
        ELSE Respond(p, 201, "transfer",
                     TransferResponse(transfers[CHOOSE i \in found : TRUE]))
    /\ UNCHANGED <<dbVars, reqVars, txVars, wrote>>

\* ---------------------------------------------------------------- deadlock
\* the row a waiting statement needs, NoUser when the request waits for none
Wanted(p) ==
    IF pc[p] = "lock_sender" THEN current_user[p]
    ELSE IF pc[p] = "lock_receiver" THEN recipient[p]
    ELSE IF pc[p] \in {"deposit_update", "withdraw_update"} THEN current_user[p]
    ELSE NoUser

\* p waits for a row lock that q's transaction holds
WaitsFor(p, q) == p # q /\ Wanted(p) # NoUser /\ Wanted(p) \in Range(held[q])

Blocked(p) == \E q \in Procs : WaitsFor(p, q)

RECURSIVE WaitReach(_, _)
WaitReach(S, n) ==
    IF n = 0 THEN S
    ELSE WaitReach(S \cup {q \in Procs : \E r \in S : WaitsFor(r, q)}, n - 1)

\* p is on a cycle of the waits-for graph
InWaitCycle(p) == p \in WaitReach({q \in Procs : WaitsFor(p, q)}, NProcs)

\* The store breaks a cycle of lock waits by aborting one transaction of the
\* cycle (DeadlockDetectedError).  create_transfer's except clause does not
\* catch it; the transaction rolls back and the route answers 500.
DeadlockDetected(p) ==
    /\ pc[p] = "lock_receiver"
    /\ InWaitCycle(p)
    /\ Rollback(p)
    /\ Respond(p, 500, "storage_error", NoRecord)
    /\ UNCHANGED <<dbVars, reqVars, wrote>>

\* ---------------------------------------------------------------- deposit, withdraw
\* user_crud.update_balance: UPDATE users SET balance = $2 WHERE id = $1 AND
\* balance >= 0, committed on its own; it waits for the row lock; "rows" is
\* the number of rows updated, -1 when the users table's CHECK rejects the row
update_balance(p, user_id, new_balance) ==
    /\ user_id \in Accounts => LockFree(user_id, p)
    /\ LET hit == user_id \in Accounts /\ balance[user_id] >= 0
           rows == IF ~hit THEN 0 ELSE IF BalanceCheck(new_balance) THEN 1 ELSE -1
       IN /\ balance' = IF rows = 1 THEN [balance EXCEPT ![user_id] = new_balance]
                        ELSE balance
          /\ wrote' = [wrote EXCEPT ![p] = (rows = 1)]
          /\ IF rows = 1 THEN Respond(p, 200, "balance", new_balance)
             ELSE IF rows = 0 THEN Respond(p, 400, "not_updated", NoRecord)
             ELSE Respond(p, 500, "check_violation", NoRecord)

\* current_balance = await user_crud.get_balance(current_user.id)
DepositGetBalance(p) ==
    /\ pc[p] = "deposit_get_balance"
    /\ IF current_user[p] \notin Accounts
       THEN Respond(p, 404, "user_not_found", NoRecord)
       ELSE /\ read_balance' = [read_balance EXCEPT ![p] = balance[current_user[p]]]
            /\ Goto(p, "deposit_update")
            /\ UNCHANGED recipient
    /\ UNCHANGED <<dbVars, reqVars, txVars, wrote>>

\* new_balance = current_balance + amount; update_balance(id, new_balance)
DepositUpdateBalance(p) ==
    /\ pc[p] = "deposit_update"
    /\ update_balance(p, current_user[p], read_balance[p] + amount[p])
    /\ UNCHANGED <<username, users_id_seq, transfers, transfers_id_seq, initial,
                   initial_balance, now, reqVars, txVars>>

\* current_balance = await user_crud.get_balance(current_user.id), then the
\* check `current_balance < withdraw_data.amount`
WithdrawGetBalance(p) ==
    /\ pc[p] = "withdraw_get_balance"
    /\ IF current_user[p] \notin Accounts
       THEN Respond(p, 404, "user_not_found", NoRecord)
       ELSE IF InsufficientFunds(balance[current_user[p]], amount[p])
       THEN Respond(p, 400, "insufficient_funds", NoRecord)
       ELSE /\ read_balance' = [read_balance EXCEPT ![p] = balance[current_user[p]]]
            /\ Goto(p, "withdraw_update")
            /\ UNCHANGED recipient
    /\ UNCHANGED <<dbVars, reqVars, txVars, wrote>>

\* mutant: the withdraw written as UPDATE users SET balance = balance - amount
\* on a users table without its CHECK; the funds check stays where it is, on
\* the balance read before
WithdrawUpdateRelative(p) ==
    /\ pc[p] = "withdraw_update"
    /\ LockFree(current_user[p], p)
    /\ balance' = [balance EXCEPT ![current_user[p]] = @ - amount[p]]
    /\ wrote' = [wrote EXCEPT ![p] = TRUE]
    /\ Respond(p, 200, "balance", balance[current_user[p]] - amount[p])
    /\ UNCHANGED <<username, users_id_seq, transfers, transfers_id_seq, initial,
                   initial_balance, now, reqVars, txVars>>

\* new_balance = current_balance - amount; update_balance(id, new_balance)
WithdrawUpdateBalance(p) ==
    /\ pc[p] = "withdraw_update"
    /\ update_balance(p, current_user[p], read_balance[p] - amount[p])
    /\ UNCHANGED <<username, users_id_seq, transfers, transfers_id_seq, initial,
                   initial_balance, now, reqVars, txVars>>

\* ---------------------------------------------------------------- register
\* POST /users/register: no authentication; UserCreate is validated (422)
RegisterArrives(p) ==
    /\ NextSlot(p)
    /\ \E name \in Names, b \in RawInitialBalances :
        /\ kind' = [kind EXCEPT ![p] = "register"]
        /\ IF ValidInitialBalance(b)
           THEN /\ to_username' = [to_username EXCEPT ![p] = name]
                /\ amount' = [amount EXCEPT ![p] = b]
                /\ Goto(p, "register_check")
                /\ UNCHANGED <<recipient, read_balance>>
           ELSE /\ UNCHANGED <<to_username, amount>>
                /\ Respond(p, 422, "initial_balance", NoRecord)
    /\ UNCHANGED <<dbVars, current_user, txVars, wrote>>

\* existing_user = await user_crud.get_user_by_username(username)
RegisterCheck(p) ==
    /\ pc[p] = "register_check"
    /\ IF UserByUsername(to_username[p]) # NoUser
       THEN Respond(p, 400, "username_exists", NoRecord)
       ELSE /\ Goto(p, "register_insert")
            /\ UNCHANGED <<recipient, read_balance>>
    /\ UNCHANGED <<dbVars, reqVars, txVars, wrote>>

\* mutant: the INSERT leaves the balance column out, so the account starts
\* with the column's DEFAULT 0.00
RegisterCreateUserDefaultBalance(p) ==
    /\ pc[p] = "register_insert"
    /\ users_id_seq' = users_id_seq + 1
    /\ IF UserByUsername(to_username[p]) = NoUser
       THEN /\ balance' = [u \in Accounts \cup {users_id_seq} |->
                              IF u = users_id_seq THEN 0 ELSE balance[u]]
            /\ username' = [u \in Accounts \cup {users_id_seq} |->
                              IF u = users_id_seq THEN to_username[p] ELSE username[u]]
            /\ wrote' = [wrote EXCEPT ![p] = TRUE]
            /\ Respond(p, 201, "user",
                       [id |-> users_id_seq, username |-> to_username[p],
                        balance |-> 0])
       ELSE /\ UNCHANGED <<balance, username, wrote>>
            /\ Respond(p, 400, "create_user_failed", NoRecord)
    /\ UNCHANGED <<transfers, transfers_id_seq, initial,
                   initial_balance, now, reqVars, txVars>>

\* mutant: the users table created without UNIQUE on username
RegisterCreateUserNoUnique(p) ==
    /\ pc[p] = "register_insert"
    /\ users_id_seq' = users_id_seq + 1
    /\ IF BalanceCheck(amount[p])
       THEN /\ balance' = [u \in Accounts \cup {users_id_seq} |->
                              IF u = users_id_seq THEN amount[p] ELSE balance[u]]
            /\ username' = [u \in Accounts \cup {users_id_seq} |->
                              IF u = users_id_seq THEN to_username[p] ELSE username[u]]
            /\ wrote' = [wrote EXCEPT ![p] = TRUE]
            /\ Respond(p, 201, "user",
                       [id |-> users_id_seq, username |-> to_username[p],
                        balance |-> amount[p]])
       ELSE /\ UNCHANGED <<balance, username, wrote>>
            /\ Respond(p, 400, "create_user_failed", NoRecord)
    /\ UNCHANGED <<transfers, transfers_id_seq, initial,
                   initial_balance, now, reqVars, txVars>>

\* user_crud.create_user: INSERT INTO users ... RETURNING ...; username is
\* UNIQUE, balance is CHECKed, the SERIAL id is drawn either way
RegisterCreateUser(p) ==
    /\ pc[p] = "register_insert"
    /\ users_id_seq' = users_id_seq + 1
    /\ IF UserByUsername(to_username[p]) = NoUser /\ BalanceCheck(amount[p])
       THEN /\ balance' = [u \in Accounts \cup {users_id_seq} |->
                              IF u = users_id_seq THEN amount[p] ELSE balance[u]]
            /\ username' = [u \in Accounts \cup {users_id_seq} |->
                              IF u = users_id_seq THEN to_username[p] ELSE username[u]]
            /\ wrote' = [wrote EXCEPT ![p] = TRUE]
            /\ Respond(p, 201, "user",
                       [id |-> users_id_seq, username |-> to_username[p],
                        balance |-> amount[p]])
       ELSE /\ UNCHANGED <<balance, username, wrote>>
            /\ Respond(p, 400, "create_user_failed", NoRecord)
    /\ UNCHANGED <<transfers, transfers_id_seq, initial,
                   initial_balance, now, reqVars, txVars>>

\* ---------------------------------------------------------------- next
Next ==
    \E p \in Procs :
        \/ TransferArrives(p)
        \/ LookupRecipient(p)
        \/ LockSender(p)
        \/ LockReceiver(p)
        \/ Debit(p)
        \/ Credit(p)
        \/ InsertTransfer(p)
        \/ Commit(p)
        \/ GetTransfer(p)
        \/ DeadlockDetected(p)
        \/ DepositArrives(p)
        \/ DepositGetBalance(p)
        \/ DepositUpdateBalance(p)
        \/ WithdrawArrives(p)
        \/ WithdrawGetBalance(p)
        \/ WithdrawUpdateBalance(p)
        \/ RegisterArrives(p)
        \/ RegisterCheck(p)
        \/ RegisterCreateUser(p)

Spec == Init /\ [][Next]_vars

\* ---------------------------------------------------------------- N transfers A -> B
\* N = NProcs transfers of the same amount X from account 1, whose balance is
\* N * X, to account 2; nothing else runs.
PairAmounts == {1, 2}

PairInit ==
    /\ \E x \in PairAmounts, b \in 0..MaxInitBalance :
        /\ balance = [u \in {1, 2} |-> IF u = 1 THEN NProcs * x ELSE b]
        /\ amount = [p \in Procs |-> x]
    /\ username = [u \in {1, 2} |-> u]
    /\ users_id_seq = 3
    /\ transfers = <<>>
    /\ transfers_id_seq = 1
    /\ initial = balance[1] + balance[2]
    /\ initial_balance = balance
    /\ pc = [p \in Procs |-> "idle"]
    /\ kind = [p \in Procs |-> "none"]
    /\ current_user = [p \in Procs |-> NoUser]
    /\ to_username = [p \in Procs |-> 0]
    /\ recipient = [p \in Procs |-> NoUser]
    /\ read_balance = [p \in Procs |-> 0]
    /\ held = [p \in Procs |-> <<>>]
    /\ tx_writes = [p \in Procs |-> <<>>]
    /\ tx_insert = [p \in Procs |-> NoRecord]
    /\ conn = [p \in Procs |-> FALSE]
    /\ tx_start = [p \in Procs |-> 0]
    /\ now = 0
    /\ status = [p \in Procs |-> 0]
    /\ detail = [p \in Procs |-> "none"]
    /\ result = [p \in Procs |-> NoRecord]
    /\ wrote = [p \in Procs |-> FALSE]

\* POST /transfers/ by user 1 to user 2 with the amount of the scenario
PairTransferArrives(p) ==
    Arrive(p, "transfer", 1, 2, 10 * amount[p], "lookup_recipient")

NextPair ==
    \E p \in Procs :
        \/ PairTransferArrives(p)
        \/ LookupRecipient(p)
        \/ LockSender(p)
        \/ LockReceiver(p)
        \/ Debit(p)
        \/ Credit(p)
        \/ InsertTransfer(p)
        \/ Commit(p)
        \/ GetTransfer(p)

SpecPair == PairInit /\ [][NextPair]_vars

\* ---------------------------------------------------------------- claims
Done(p) == pc[p] = "done"

\* requests of kind k that ended with a success response
Succeeded(k) == {p \in Procs : Done(p) /\ kind[p] = k /\ status[p] \in {200, 201}}

InTransaction(p) ==
    pc[p] \in {"lock_sender", "lock_receiver", "debit", "credit",
               "insert_transfer", "commit"}

\* p takes a step of its transfer request
TransferStep(p) == kind'[p] = "transfer" /\ pc'[p] # pc[p]

\* the step applies p's transfer as a whole: debit, credit and one ledger row
FullyApplied(p) ==
    /\ balance' = [balance EXCEPT ![current_user[p]] = @ - amount[p],
                                  ![recipient[p]] = @ + amount[p]]
    /\ Len(transfers') = Len(transfers) + 1
    /\ SubSeq(transfers', 1, Len(transfers)) = transfers
    /\ LET rec == transfers'[Len(transfers')] IN
        /\ rec.from_user_id = current_user[p]
        /\ rec.to_user_id = recipient[p]
        /\ rec.amount = amount[p]

\* C1: the sum of all balances equals the sum at start plus the initial
\* balances of the accounts registered since, plus the amounts of all
\* successful deposits, minus the amounts of all successful withdrawals.
Conservation ==
    TotalBalance = initial + SumOver(amount, Succeeded("register"))
                           + SumOver(amount, Succeeded("deposit"))
                           - SumOver(amount, Succeeded("withdraw"))

\* C2: in every committed state every account's balance is >= 0.
NonNegativity == \A a \in Accounts : balance[a] >= 0

\* C2 witness: a withdraw or transfer emptied an account and another request
\* on it was rejected for insufficient funds.
NonNegativityWitness ==
    \E p, q \in Procs :
        /\ p # q /\ Done(p) /\ Done(q)
        /\ kind[p] \in {"withdraw", "transfer"} /\ status[p] \in {200, 201}
        /\ amount[p] > 0
        /\ balance[current_user[p]] = 0
        /\ current_user[q] = current_user[p]
        /\ kind[q] \in {"withdraw", "transfer"}
        /\ detail[q] = "insufficient_funds"

\* C3: every step of a transfer request either leaves the committed balances
\* and the ledger as they are or applies the whole transfer (debit, credit
\* and ledger record) at once.
AllOrNothing ==
    [][\A p \in Procs :
         TransferStep(p) =>
             \/ (balance' = balance /\ transfers' = transfers)
             \/ FullyApplied(p)]_vars

\* C3 witness: a transfer has just committed while another request on one of
\* its accounts is in flight.
AllOrNothingWitness ==
    \E p, q \in Procs :
        /\ p # q
        /\ pc[p] = "get_transfer" /\ amount[p] > 0
        /\ pc[q] \notin {"idle", "done"}
        /\ current_user[q] \in {result[p].from_user_id, result[p].to_user_id}

\* no request can take a step
Quiescent == \A p \in Procs : Done(p) \/ Blocked(p)

\* C4: when the N concurrent transfers of X from account 1 (balance N * X) to
\* account 2 have come to rest, all N succeeded, account 1 holds 0, account 2
\* holds its initial balance plus N * X and the ledger holds exactly N
\* records, each of X from 1 to 2.
ConcurrentPairSafety ==
    Quiescent =>
        /\ \A p \in Procs : Done(p) /\ status[p] = 201
        /\ balance[1] = 0
        /\ balance[2] = (initial - NProcs * amount[1]) + NProcs * amount[1]
        /\ Len(transfers) = NProcs
        /\ \A i \in 1..Len(transfers) :
            /\ transfers[i].from_user_id = 1
            /\ transfers[i].to_user_id = 2
            /\ transfers[i].amount = amount[1]

\* C4 witness: all N transfers are done and account 1 is empty.
ConcurrentPairWitness ==
    /\ \A p \in Procs : Done(p) /\ status[p] = 201
    /\ balance[1] = 0
    /\ Len(transfers) = NProcs

\* C5: no state has two transfers each holding one account's row lock and
\* waiting for the other's.
NoLockCycle ==
    ~ \E p, q \in Procs :
        /\ p # q
        /\ held[p] # <<>> /\ held[q] # <<>>
        /\ WaitsFor(p, q) /\ WaitsFor(q, p)

\* the first row lock p's transaction requests
FirstLock(p) == IF held[p] # <<>> THEN held[p][1] ELSE Wanted(p)

\* C6: two transfers over the same two accounts request their row locks in
\* the same order, whichever account is the source.
LockOrderIndependentOfDirection ==
    \A p, q \in Procs :
        ( /\ InTransaction(p) /\ InTransaction(q)
          /\ {current_user[p], recipient[p]} = {current_user[q], recipient[q]} )
        => FirstLock(p) = FirstLock(q)

\* the change a successful deposit or withdraw is to make to the balance
Delta(p) == IF kind[p] = "deposit" THEN amount[p] ELSE 0 - amount[p]

\* C7: every successful deposit or withdraw changes the committed balance of
\* its account by exactly its amount: the committed balances of an account
\* are the successful operations applied one after another.
LinearizableReadModifyWrite ==
    [][\A p \in Procs :
         ( /\ pc[p] \in {"deposit_update", "withdraw_update"}
           /\ pc'[p] = "done" /\ status'[p] = 200 )
         => balance'[current_user[p]] = balance[current_user[p]] + Delta(p)]_vars

PreconditionFailures ==
    {"self_transfer", "amount", "sender_not_found", "recipient_not_found",
     "receiver_not_found", "insufficient_funds"}

\* C8: the step in which a transfer fails a precondition leaves every balance
\* and the ledger as they are, and the request has committed nothing before.
AtomicityUnderFailure ==
    [][\A p \in Procs :
         ( /\ TransferStep(p) /\ pc'[p] = "done"
           /\ detail'[p] \in PreconditionFailures )
         => (balance' = balance /\ transfers' = transfers /\ ~wrote[p])]_vars

\* C8 witness: a transfer was rejected for insufficient funds on a sender
\* row whose balance is below the amount.
AtomicityUnderFailureWitness ==
    \E p \in Procs :
        /\ Done(p) /\ kind[p] = "transfer"
        /\ detail[p] = "insufficient_funds" /\ status[p] = 400
        /\ balance[current_user[p]] < amount[p]

\* C9: a transfer request that was answered with any failure (a cancelled
\* request, status 0, is answered nothing) has committed no balance change
\* and no ledger record.
NoEffectOnFailure ==
    \A p \in Procs :
        (Done(p) /\ kind[p] = "transfer" /\ status[p] \notin {0, 201}) =>
            ~wrote[p]

\* C9 witness: one transfer was aborted by the store and another failed the
\* ledger's CHECK after its two UPDATEs; both got 500.
NoEffectOnFailureWitness ==
    \E p, q \in Procs :
        /\ Done(p) /\ kind[p] = "transfer" /\ detail[p] = "storage_error"
        /\ Done(q) /\ kind[q] = "transfer" /\ detail[q] = "check_violation"
        /\ status[p] = 500 /\ status[q] = 500

\* C10: the commit of a transfer of X from A to B lowers A's balance by
\* exactly X, raises B's by exactly X, changes no other balance and appends
\* exactly one ledger record (A, B, X).
SuccessfulTransferEffect ==
    [][\A p \in Procs :
         (pc[p] = "commit" /\ pc'[p] # "commit") => FullyApplied(p)]_vars

\* C10 witness: 1/1 and X = 1 gives 0/2 and one ledger record of 1.
SuccessfulTransferWitness ==
    \E p \in Procs :
        /\ Done(p) /\ kind[p] = "transfer" /\ status[p] = 201
        /\ current_user[p] = 1 /\ result[p].to_username = 2 /\ amount[p] = 1
        /\ initial = 2 /\ Accounts = {1, 2}
        /\ balance[1] = 0 /\ balance[2] = 2
        /\ Len(transfers) = 1 /\ transfers[1].amount = 1
        /\ \A q \in Procs \ {p} : pc[q] = "idle"

\* C11: the step that reads the sender's balance under its row lock rejects
\* the transfer with 400 "insufficient funds", leaving balances and ledger as
\* they are, when the amount is greater than that balance, and never rejects
\* it for insufficient funds otherwise; no other step of a transfer reports
\* insufficient funds.
InsufficientFundsRule ==
    [][\A p \in Procs :
         /\ ( /\ kind[p] = "transfer" /\ pc[p] = "lock_sender"
              /\ pc'[p] # "lock_sender" )
            => IF balance[current_user[p]] < amount[p]
               THEN /\ pc'[p] = "done" /\ status'[p] = 400
                    /\ detail'[p] = "insufficient_funds"
                    /\ balance' = balance /\ transfers' = transfers
               ELSE detail'[p] # "insufficient_funds"
         /\ ( /\ TransferStep(p) /\ detail'[p] = "insufficient_funds" )
            => pc[p] = "lock_sender"]_vars

\* C11 witness: one transfer was rejected for insufficient funds with 400 and
\* another, of exactly its sender's balance, went through.
InsufficientFundsWitness ==
    \E p, q \in Procs :
        /\ Done(p) /\ kind[p] = "transfer" /\ status[p] = 400
        /\ detail[p] = "insufficient_funds"
        /\ Done(q) /\ kind[q] = "transfer" /\ status[q] = 201
        /\ amount[q] > 0 /\ balance[current_user[q]] = 0

\* C12: a transfer request of an authenticated user to their own username
\* ends with 400 and the self-transfer error, whatever its amount (negative,
\* zero or positive), and leaves every stored value as it is.
SelfTransferAlwaysRejected ==
    [][\A p \in Procs, name \in Names, raw \in RawAmounts :
         ( /\ UserByUsername(name) # NoUser
           /\ Arrive(p, "transfer", name, name, raw, "lookup_recipient") )
         => ( /\ pc'[p] = "done" /\ status'[p] = 400
              /\ detail'[p] = "self_transfer"
              /\ UNCHANGED dbVars )]_vars

\* C13: a transfer request reports the first violated precondition in the
\* order self-transfer, non-positive amount, destination not found,
\* insufficient funds: a request to one's own username reports self-transfer
\* whatever its amount, a non-positive amount is reported before the
\* destination is looked up, and a missing destination is reported whatever
\* the sender's balance, so that insufficient funds is only ever reported for
\* an existing destination.
PreconditionOrder ==
    [][\A p \in Procs :
         /\ \A name \in Names, to \in Names, raw \in RawAmounts :
              ( /\ UserByUsername(name) # NoUser
                /\ Arrive(p, "transfer", name, to, raw, "lookup_recipient") )
              => IF to = name THEN detail'[p] = "self_transfer"
                 ELSE IF raw <= 0 THEN detail'[p] = "amount"
                 ELSE pc'[p] = "lookup_recipient"
         /\ ( /\ kind[p] = "transfer" /\ pc[p] = "lookup_recipient"
              /\ pc'[p] # "lookup_recipient"
              /\ UserByUsername(to_username[p]) = NoUser )
            => (status'[p] = 404 /\ detail'[p] = "recipient_not_found")
         /\ ( /\ TransferStep(p) /\ detail'[p] = "insufficient_funds" )
            => recipient[p] \in Accounts]_vars

\* C14: the step in which a withdraw's write takes effect rejects the
\* withdraw for insufficient funds, writing nothing, when its amount exceeds
\* the committed balance at that moment; every successful withdraw of w is
\* applied to a committed balance >= w and leaves it exactly w lower.
WithdrawGuard ==
    [][\A p \in Procs :
         ( /\ kind[p] = "withdraw" /\ pc[p] = "withdraw_update"
           /\ pc'[p] = "done" )
         => IF balance[current_user[p]] < amount[p]
            THEN /\ detail'[p] = "insufficient_funds"
                 /\ balance' = balance
            ELSE status'[p] = 200
                 => balance'[current_user[p]] =
                        balance[current_user[p]] - amount[p]]_vars

NonPositiveAmountRejected ==
    [][/\ \A p \in Procs :
            (pc[p] = "idle" /\ kind'[p] = "transfer") =>
                \/ /\ pc'[p] = "done" /\ status'[p] = 422
                   /\ UNCHANGED <<dbVars, txVars, recipient, read_balance>>
                \/ \A name \in Names, to \in Names, raw \in RawAmounts :
                      ~ ( /\ raw <= 0
                          /\ UserByUsername(name) # NoUser
                          /\ Arrive(p, "transfer", name, to, raw,
                                    "lookup_recipient") )
       /\ \A p \in Procs :
            (pc[p] = "commit" /\ pc'[p] # "commit") => amount[p] > 0
       /\ \A i \in 1..Len(transfers') : transfers'[i].amount > 0]_vars

\* C16 witness: one transfer was rejected with 422 for its amount; another,
\* whose validated amount is 0.00, went through both UPDATEs and was refused
\* by the ledger's CHECK, leaving the ledger empty.
NonPositiveAmountWitness ==
    \E p, q \in Procs :
        /\ Done(p) /\ kind[p] = "transfer" /\ current_user[p] # NoUser
        /\ status[p] = 422 /\ detail[p] = "amount"
        /\ Done(q) /\ kind[q] = "transfer" /\ amount[q] = 0
        /\ detail[q] = "check_violation"
        /\ transfers = <<>>

\* the status each failure kind of the transfer operation is answered with
TransferErrorStatus ==
    [self_transfer |-> 400, recipient_not_found |-> 404, amount |-> 422,
     insufficient_funds |-> 400, sender_not_found |-> 400]

\* C17: every finished transfer request that failed with one of the kinds
\* self-transfer, destination not found, non-positive amount, insufficient
\* funds or source not found carries the status of its kind (400, 404, 422,
\* 400, 400), and two finished transfers that failed with different kinds
\* differ in status or in message.
ErrorMappingDeterministic ==
    \A p \in Procs :
        (Done(p) /\ kind[p] = "transfer") =>
            /\ detail[p] \in DOMAIN TransferErrorStatus
                   => status[p] = TransferErrorStatus[detail[p]]
            /\ status[p] = 404 <=> detail[p] = "recipient_not_found"
            /\ status[p] = 422 <=> detail[p] = "amount"

\* C17 witness: one transfer failed as a self-transfer with 400, another for
\* a missing destination with 404.
ErrorMappingWitness ==
    \E p, q \in Procs :
        /\ Done(p) /\ kind[p] = "transfer"
        /\ detail[p] = "self_transfer" /\ status[p] = 400
        /\ Done(q) /\ kind[q] = "transfer"
        /\ detail[q] = "recipient_not_found" /\ status[q] = 404

\* the handler's first statement, per kind of request
FirstStatement ==
    [transfer |-> "lookup_recipient", deposit |-> "deposit_get_balance",
     withdraw |-> "withdraw_get_balance"]

\* C18: a transfer, deposit or withdraw request of an authenticated user
\* whose amount has more than 2 fractional digits ends with 422 in the step
\* it arrives in, and the amount a request goes on with is exactly the
\* amount supplied.
AmountScale ==
    [][\A p \in Procs, k \in DOMAIN FirstStatement, name \in Names,
          to \in Names \cup {0}, raw \in RawAmounts :
         ( /\ UserByUsername(name) # NoUser
           /\ Arrive(p, k, name, to, raw, FirstStatement[k]) )
         => IF raw % 10 # 0
            THEN pc'[p] = "done" /\ status'[p] = 422
            ELSE pc'[p] # "done" => 10 * amount'[p] = raw]_vars

\* ---------------------------------------------------------------- transfers among four accounts
\* Four accounts, each starting with MaxInitBalance; only transfers of 0.01
\* run, between any two of them, so that two transfers can be on disjoint
\* pairs of accounts.
LedgerNames == {1, 2, 3, 4}

LedgerInit ==
    /\ balance = [u \in LedgerNames |-> MaxInitBalance]
    /\ username = [u \in LedgerNames |-> u]
    /\ users_id_seq = 5
    /\ transfers = <<>>
    /\ transfers_id_seq = 1
    /\ initial = 4 * MaxInitBalance
    /\ initial_balance = balance
    /\ pc = [p \in Procs |-> "idle"]
    /\ kind = [p \in Procs |-> "none"]
    /\ current_user = [p \in Procs |-> NoUser]
    /\ to_username = [p \in Procs |-> 0]
    /\ amount = [p \in Procs |-> 0]
    /\ recipient = [p \in Procs |-> NoUser]
    /\ read_balance = [p \in Procs |-> 0]
    /\ held = [p \in Procs |-> <<>>]
    /\ tx_writes = [p \in Procs |-> <<>>]
    /\ tx_insert = [p \in Procs |-> NoRecord]
    /\ conn = [p \in Procs |-> FALSE]
    /\ tx_start = [p \in Procs |-> 0]
    /\ now = 0
    /\ status = [p \in Procs |-> 0]
    /\ detail = [p \in Procs |-> "none"]
    /\ result = [p \in Procs |-> NoRecord]
    /\ wrote = [p \in Procs |-> FALSE]

\* POST /transfers/ of 0.01 by any of the four users to any of them
LedgerTransferArrives(p) ==
    \E name \in LedgerNames, to \in LedgerNames :
        Arrive(p, "transfer", name, to, 10, "lookup_recipient")

NextLedger ==
    \E p \in Procs :
        \/ LedgerTransferArrives(p)
        \/ LookupRecipient(p)
        \/ LockSender(p)
        \/ LockReceiver(p)
        \/ Debit(p)
        \/ Credit(p)
        \/ InsertTransfer(p)
        \/ Commit(p)
        \/ GetTransfer(p)
        \/ DeadlockDetected(p)

SpecLedger == LedgerInit /\ [][NextLedger]_vars

\* ---------------------------------------------------------------- transfer history
\* Three accounts, each starting with MaxInitBalance; only transfers of 0.01
\* run, between some of them, while the store's clock runs up to MaxClock,
\* so that the transfers of a list have equal or different creation times
\* and a list can hold a transfer its user has no part in.
MaxClock == 1

HistoryNames == {1, 2, 3}

HistoryInit ==
    /\ balance = [u \in HistoryNames |-> MaxInitBalance]
    /\ username = [u \in HistoryNames |-> u]
    /\ users_id_seq = 4
    /\ transfers = <<>>
    /\ transfers_id_seq = 1
    /\ initial = 3 * MaxInitBalance
    /\ initial_balance = balance
    /\ pc = [p \in Procs |-> "idle"]
    /\ kind = [p \in Procs |-> "none"]
    /\ current_user = [p \in Procs |-> NoUser]
    /\ to_username = [p \in Procs |-> 0]
    /\ amount = [p \in Procs |-> 0]
    /\ recipient = [p \in Procs |-> NoUser]
    /\ read_balance = [p \in Procs |-> 0]
    /\ held = [p \in Procs |-> <<>>]
    /\ tx_writes = [p \in Procs |-> <<>>]
    /\ tx_insert = [p \in Procs |-> NoRecord]
    /\ conn = [p \in Procs |-> FALSE]
    /\ tx_start = [p \in Procs |-> 0]
    /\ now = 0
    /\ status = [p \in Procs |-> 0]
    /\ detail = [p \in Procs |-> "none"]
    /\ result = [p \in Procs |-> NoRecord]
    /\ wrote = [p \in Procs |-> FALSE]

\* the senders and recipients of the transfers that run
HistoryPairs == {<<1, 2>>, <<2, 1>>, <<3, 1>>}

\* POST /transfers/ of 0.01 from 1 to 2, from 2 to 1 or from 3 to 1
HistoryTransferArrives(p) ==
    \E pair \in HistoryPairs :
        Arrive(p, "transfer", pair[1], pair[2], 10, "lookup_recipient")

\* the clock of the store advances
Tick ==
    /\ now < MaxClock
    /\ now' = now + 1
    /\ UNCHANGED <<balance, username, users_id_seq, transfers, transfers_id_seq,
                   initial, initial_balance, pc, reqVars, recipient, read_balance, txVars,
                   respVars, wrote>>

NextHistory ==
    \/ Tick
    \/ \E p \in Procs :
        \/ HistoryTransferArrives(p)
        \/ LookupRecipient(p)
        \/ LockSender(p)
        \/ LockReceiver(p)
        \/ Debit(p)
        \/ Credit(p)
        \/ InsertTransfer(p)
        \/ Commit(p)
        \/ GetTransfer(p)
        \/ DeadlockDetected(p)

SpecHistory == HistoryInit /\ [][NextHistory]_vars

\* C19: the ledger, read in commit order, has strictly increasing ids: the
\* ids are pairwise different and a transfer that committed earlier has the
\* smaller id, also when the transfers are on disjoint pairs of accounts.
TransferIdsMonotonic ==
    \A i, j \in 1..Len(transfers) :
        i < j => transfers[i].id < transfers[j].id

\* C20: every step leaves every committed ledger record in place and as it
\* was written: the ledger after the step is the ledger before it, followed
\* by at most one new record.
LedgerAppendOnly ==
    [][/\ Len(transfers') \in {Len(transfers), Len(transfers) + 1}
       /\ SubSeq(transfers', 1, Len(transfers)) = transfers]_vars

\* C20 witness: the ledger holds two records, the first committed before the
\* second transfer was answered, and every request is finished.
LedgerAppendOnlyWitness ==
    /\ Len(transfers) = 2
    /\ \A p \in Procs : Done(p) /\ status[p] = 201
    /\ \E p \in Procs : result[p].id = transfers[1].id

\* C21: every committed ledger record has a source different from its
\* destination, an amount > 0, and a source and a destination that are
\* existing accounts.
LedgerRecordInvariant ==
    \A i \in 1..Len(transfers) :
        /\ transfers[i].from_user_id # transfers[i].to_user_id
        /\ transfers[i].amount > 0
        /\ transfers[i].from_user_id \in Accounts
        /\ transfers[i].to_user_id \in Accounts

\* C21 witness: the ledger holds a record, and a transfer whose validated
\* amount is 0.00 was refused by the ledger's CHECK.
LedgerRecordWitness ==
    \E p, q \in Procs :
        /\ Done(p) /\ kind[p] = "transfer" /\ status[p] = 201
        /\ Len(transfers) = 1 /\ transfers[1].id = result[p].id
        /\ Done(q) /\ kind[q] = "transfer" /\ amount[q] = 0
        /\ detail[q] = "check_violation"

\* ---------------------------------------------------------------- abandoned requests, failing statements
\* the request has begun and has not been answered
InFlight(p) == pc[p] \notin {"idle", "done"}

\* mutant: the transaction is opened and closed by explicit statements, so a
\* cancelled task leaves it open with its row locks and its connection
CancelKeepsTransaction(p) ==
    /\ InFlight(p)
    /\ Respond(p, 0, "cancelled", NoRecord)
    /\ UNCHANGED <<dbVars, reqVars, txVars, wrote>>

\* The caller abandons the request and the handler's task is cancelled at
\* the await it is at: CancelledError leaves `async with
\* connection.transaction()` by ROLLBACK and `async with self.pool.acquire()`
\* by giving the connection back; no response is sent (status 0).  A task
\* that is not cancelled simply goes on.
Cancel(p) ==
    /\ InFlight(p)
    /\ Rollback(p)
    /\ Respond(p, 0, "cancelled", NoRecord)
    /\ UNCHANGED <<dbVars, reqVars, wrote>>

\* mutant: create_transfer catches every exception and raises it again as a
\* ValueError, which the route answers with 400
StorageFailureAsValueError(p) ==
    /\ InFlight(p)
    /\ Rollback(p)
    /\ IF conn[p] THEN Respond(p, 400, "storage_error", NoRecord)
       ELSE Respond(p, 500, "statement_failed", NoRecord)
    /\ UNCHANGED <<dbVars, reqVars, wrote>>

\* The statement the request is at fails in the store (lock or command
\* timeout, lost connection) before it takes effect.  Inside create_transfer
\* the error is none of (ValueError, CheckViolationError): it leaves the
\* transaction by ROLLBACK and reaches the route's `except Exception`, as
\* does the error of a statement run outside a transaction; both answer 500.
StorageFailure(p) ==
    /\ InFlight(p)
    /\ Rollback(p)
    /\ Respond(p, 500, IF conn[p] THEN "storage_error" ELSE "statement_failed",
               NoRecord)
    /\ UNCHANGED <<dbVars, reqVars, wrote>>

\* requests of users 1 and 2 with an amount of 0.01; a transfer's recipient
\* is any username
FaultTransferArrives(p) ==
    \E name \in {1, 2}, to \in Names :
        Arrive(p, "transfer", name, to, 10, "lookup_recipient")

FaultDepositArrives(p) ==
    \E name \in {1, 2} : Arrive(p, "deposit", name, 0, 10, "deposit_get_balance")

FaultWithdrawArrives(p) ==
    \E name \in {1, 2} : Arrive(p, "withdraw", name, 0, 10, "withdraw_get_balance")

NextFaults ==
    \E p \in Procs :
        \/ FaultTransferArrives(p)
        \/ LookupRecipient(p)
        \/ LockSender(p)
        \/ LockReceiver(p)
        \/ Debit(p)
        \/ Credit(p)
        \/ InsertTransfer(p)
        \/ Commit(p)
        \/ GetTransfer(p)
        \/ DeadlockDetected(p)
        \/ FaultDepositArrives(p)
        \/ DepositGetBalance(p)
        \/ DepositUpdateBalance(p)
        \/ FaultWithdrawArrives(p)
        \/ WithdrawGetBalance(p)
        \/ WithdrawUpdateBalance(p)
        \/ Cancel(p)
        \/ StorageFailure(p)

SpecFaults == Init /\ [][NextFaults]_vars

\* C22: when the caller abandons a transfer at any point before its commit,
\* the transaction is rolled back: every step of a transfer request,
\* cancellation included, either leaves the committed balances and the
\* ledger as they are or applies the whole transfer, and a transfer request
\* that has ended has no open transaction, no row lock and no connection.
CancellationIsDefinite ==
    [][\A p \in Procs :
         TransferStep(p) =>
             /\ \/ (balance' = balance /\ transfers' = transfers)
                \/ FullyApplied(p)
             /\ pc'[p] = "done" =>
                    /\ held'[p] = <<>> /\ tx_writes'[p] = <<>>
                    /\ tx_insert'[p] = NoRecord /\ ~conn'[p]
             /\ (detail'[p] = "cancelled" /\ pc[p] # "get_transfer") =>
                    (~wrote'[p] /\ balance' = balance /\ transfers' = transfers)]_vars

\* C22 witness: the only request, a transfer, was abandoned after its INSERT
\* had run (the ledger's id sequence has advanced) and before its commit:
\* the ledger is empty, the balances are the initial ones, no lock is held.
CancellationWitness ==
    \E p \in Procs :
        /\ Done(p) /\ kind[p] = "transfer" /\ detail[p] = "cancelled"
        /\ \A q \in Procs \ {p} : pc[q] = "idle"
        /\ transfers_id_seq = 2 /\ transfers = <<>>
        /\ TotalBalance = initial /\ ~wrote[p]
        /\ held[p] = <<>>

\* registration requests that passed validation and were answered
Registered == {p \in Procs : Done(p) /\ kind[p] = "register" /\ status[p] # 422}

\* C23: no two accounts share a username; a registration is answered 201 or
\* 400; one of a username that exists is answered 400 and creates no
\* account; of the registrations of one new username exactly one succeeds,
\* and there are as many accounts as at start plus one per success.
UsernameUniqueness ==
    /\ \A a, b \in Accounts : username[a] = username[b] => a = b
    /\ \A p \in Registered :
        /\ status[p] \in {201, 400}
        /\ status[p] = 400 => ~wrote[p]
        /\ to_username[p] \in {1, 2} => status[p] = 400
        /\ Cardinality({q \in Registered :
                           to_username[q] = to_username[p] /\ status[q] = 201})
               = IF to_username[p] \in {1, 2} THEN 0 ELSE 1
    /\ Cardinality(Accounts) = 2 + Cardinality(Succeeded("register"))

\* C23 witness: two registrations of the same new username both passed the
\* existence check; one created the account, the other was answered 400.
UsernameUniquenessWitness ==
    \E p, q \in Procs :
        /\ Done(p) /\ kind[p] = "register" /\ status[p] = 201
        /\ Done(q) /\ kind[q] = "register" /\ status[q] = 400
        /\ detail[q] = "create_user_failed"
        /\ to_username[p] = to_username[q]
        /\ Cardinality(Accounts) = 3

\* a committed deposit, withdraw or transfer has written the row of account a
Touched(a) ==
    \/ \E q \in Procs :
            wrote[q] /\ kind[q] \in {"deposit", "withdraw"} /\ current_user[q] = a
    \/ \E i \in 1..Len(transfers) :
            a \in {transfers[i].from_user_id, transfers[i].to_user_id}

\* the step is the committing statement of a transfer, deposit or withdraw
BalanceWritingStep ==
    \E q \in Procs :
        /\ kind[q] \in {"transfer", "deposit", "withdraw"}
        /\ pc[q] \in {"commit", "deposit_update", "withdraw_update"}
        /\ pc'[q] # pc[q]

BalanceRead(p) ==
    /\ kind[p] = "transfer"
    /\ pc[p] \in {"lock_receiver", "debit", "credit", "insert", "commit"}

\* C25: a transfer that has read the source balance holds the row locks of
\* both the source and the destination account.
LocksBeforeReads ==
    \A p \in Procs :
        BalanceRead(p) =>
            /\ current_user[p] \in Range(held[p])
            /\ recipient[p] \in Range(held[p])

\* C26: every step in which a transfer, deposit or withdraw writes the
\* balance of an account is taken by a request that holds the row lock of
\* that account since it read the balance, that is, already before the step.
WritesUnderHeldLock ==
    [][\A p \in Procs : \A a \in Accounts :
            ( /\ pc[p] \in {"commit", "deposit_update", "withdraw_update"}
              /\ pc'[p] = "done"
              /\ balance'[a] # balance[a] )
            => a \in Range(held[p])]_vars

ReturnedRecordMatchesCommit ==
    \A p \in Succeeded("transfer") :
        /\ DOMAIN result[p] =
              {"id", "amount", "from_username", "to_username", "created_at"}
        /\ Cardinality({i \in 1..Len(transfers) : transfers[i].id = result[p].id}) = 1
        /\ \A i \in 1..Len(transfers) :
              transfers[i].id = result[p].id =>
                  /\ transfers[i].amount = result[p].amount
                  /\ transfers[i].created_at = result[p].created_at
                  /\ amount[p] = result[p].amount
                  /\ transfers[i].from_user_id = current_user[p]
                  /\ username[transfers[i].from_user_id] = result[p].from_username
                  /\ username[transfers[i].to_user_id] = result[p].to_username
                  /\ to_username[p] = result[p].to_username
        /\ \A q \in Succeeded("transfer") \ {p} : result[q].id # result[p].id

\* C28 witness: two transfers in opposite directions were answered, each
\* with its own record: the second committed went from 2 to 1.
ReturnedRecordWitness ==
    \E p, q \in Procs :
        /\ Done(p) /\ kind[p] = "transfer" /\ status[p] = 201
        /\ Done(q) /\ kind[q] = "transfer" /\ status[q] = 201
        /\ result[p].id = 1 /\ result[p].from_username = 1 /\ result[p].to_username = 2
        /\ result[q].id = 2 /\ result[q].from_username = 2 /\ result[q].to_username = 1
        /\ result[p].amount = 1 /\ result[q].amount = 1

\* C29: a request that is not running (it has not started, or it has
\* finished with whatever outcome: success, precondition error, storage error
\* or cancellation) holds no pooled connection, no row lock and no pending
\* write; a connection is held exactly by the requests inside the transfer
\* transaction, row locks are held only by requests holding their connection,
\* and no row is locked by two requests.
ResourceRelease ==
    /\ \A p \in Procs :
          /\ ~InFlight(p) =>
                /\ ~conn[p] /\ held[p] = <<>>
                /\ tx_writes[p] = <<>> /\ tx_insert[p] = NoRecord
          /\ conn[p] <=> InTransaction(p)
          /\ held[p] # <<>> => conn[p]
    /\ \A p, q \in Procs : p # q => Range(held[p]) \cap Range(held[q]) = {}

\* C29 witness: every request is finished, one transfer by a failure of the
\* store after its INSERT (it held both row locks), one withdraw by
\* cancellation; no connection and no lock is left.
ResourceReleaseWitness ==
    /\ \A p \in Procs : Done(p) /\ ~conn[p] /\ held[p] = <<>>
    /\ \E p, q \in Procs :
          /\ kind[p] = "transfer" /\ detail[p] = "storage_error"
          /\ kind[q] = "withdraw" /\ detail[q] = "cancelled"
    /\ transfers_id_seq = 2

\* the page sizes and offsets the lists are asked with
HistoryLimits == {1, 2}
HistoryOffsets == {0, 1}

\* the number of transfers of user u, other than the one with id, created
\* after time t (strictly = TRUE) or at t or later (strictly = FALSE)
NewerThan(u, id, t, strictly) ==
    Cardinality({i \in 1..Len(transfers) :
        /\ u \in {transfers[i].from_user_id, transfers[i].to_user_id}
        /\ transfers[i].id # id
        /\ IF strictly THEN transfers[i].created_at > t
           ELSE transfers[i].created_at >= t})

\* C30: every list get_user_transfers may return for a user holds at most
\* limit records, each with the user as sender or recipient, no record
\* twice, in the order of descending creation time; and the record of a
\* successful transfer from A to B is in the list of A and in the list of B
\* whenever the window covers its place in that order (at least offset
\* transfers of the user are newer, and fewer than offset + limit others are
\* as new or newer), and is not in it when the window lies before or after
\* its place.
TransferHistoryMembership ==
    \A u \in Accounts : \A limit \in HistoryLimits : \A offset \in HistoryOffsets :
        \A L \in get_user_transfers(u, limit, offset) :
            /\ Len(L) <= limit
            /\ \A k \in DOMAIN L :
                  username[u] \in {L[k].from_username, L[k].to_username}
            /\ \A j, k \in DOMAIN L :
                  j < k => /\ L[j].created_at >= L[k].created_at
                           /\ L[j].id # L[k].id
            /\ \A p \in Succeeded("transfer") :
                  u \in {current_user[p], UserByUsername(to_username[p])} =>
                      LET r == result[p]
                          newer == NewerThan(u, r.id, r.created_at, TRUE)
                          notOlder == NewerThan(u, r.id, r.created_at, FALSE)
                      IN /\ (offset <= newer /\ notOlder < offset + limit)
                               => \E k \in DOMAIN L : L[k] = r
                         /\ (notOlder < offset \/ newer >= offset + limit)
                               => \A k \in DOMAIN L : L[k] # r

\* C30 witness: two transfers are answered; the one committed second, from
\* 3 to 1, began before the clock advanced and the one committed first, from
\* 1 to 2, after it, so the list of user 1 shows the first committed on top;
\* user 2 has no part in the second and user 3 none in the first.
TransferHistoryWitness ==
    /\ \A p \in Procs : Done(p) /\ kind[p] = "transfer" /\ status[p] = 201
    /\ Len(transfers) = 2
    /\ transfers[1].from_user_id = 1 /\ transfers[1].to_user_id = 2
    /\ transfers[2].from_user_id = 3 /\ transfers[2].to_user_id = 1
    /\ transfers[1].created_at = 1 /\ transfers[2].created_at = 0
    /\ \E L \in get_user_transfers(1, 2, 0) :
          Len(L) = 2 /\ L[1].id = transfers[1].id /\ L[2].id = transfers[2].id
    /\ \E L \in get_user_transfers(2, 2, 0) : Len(L) = 1

\* the balance account a began with: its balance at start, or the balance
\* it was registered with
StartBalance(a) ==
    IF a \in DOMAIN initial_balance THEN initial_balance[a]
    ELSE SumOver(amount, {p \in Succeeded("register") : result[p].id = a})

\* the sum of the amounts of the ledger records at the positions in S
LedgerAmount(S) ==
    SumOver([i \in 1..Len(transfers) |-> transfers[i].amount], S)

\* C31: the committed balance of every account is the balance it began with
\* plus its successful deposits minus its successful withdrawals plus the
\* amounts of the ledger records naming it as destination minus the amounts
\* of those naming it as source.
LedgerReconciliation ==
    \A a \in Accounts :
        balance[a] =
            StartBalance(a)
            + SumOver(amount, {p \in Succeeded("deposit") : current_user[p] = a})
            - SumOver(amount, {p \in Succeeded("withdraw") : current_user[p] = a})
            + LedgerAmount({i \in 1..Len(transfers) : transfers[i].to_user_id = a})
            - LedgerAmount({i \in 1..Len(transfers) : transfers[i].from_user_id = a})

\* C32: the ledger record a commit appends has as its source the account
\* the committing request authenticated as, and a step that lowers the
\* balance of an account is a step of a request authenticated as that
\* account.
OnlyOwnerDebits ==
    [][/\ Len(transfers') > Len(transfers) =>
            \E p \in Procs :
                /\ pc[p] = "commit" /\ pc'[p] # "commit"
                /\ transfers'[Len(transfers')].from_user_id = current_user[p]
       /\ \A a \in Accounts :
            balance'[a] < balance[a] =>
                \E p \in Procs : pc'[p] # pc[p] /\ current_user[p] = a]_vars

\* C32 witness: user 1 withdrew 0.01 and user 2 sent 0.01 to user 1; each
\* balance was lowered by its owner's request only.
OnlyOwnerDebitsWitness ==
    \E p, q \in Procs :
        /\ Done(p) /\ kind[p] = "withdraw" /\ status[p] = 200
        /\ current_user[p] = 1 /\ amount[p] = 1
        /\ Done(q) /\ kind[q] = "transfer" /\ status[q] = 201
        /\ current_user[q] = 2 /\ result[q].to_username = 1
        /\ Len(transfers) = 1 /\ transfers[1].from_user_id = 2
        /\ initial_balance[1] = 1 /\ initial_balance[2] = 1
        /\ balance[1] = 1 /\ balance[2] = 0

\* the transfer ids asked for: 0 to 3 and 2^31
PathIds ==
    {PathId(0, 0), PathId(0, 1), PathId(0, 2), PathId(0, 3),
     PathId(Int4HighLimit, 0)}

\* the positions in the ledger of the records with the id x
RecordsWithId(x) ==
    {i \in 1..Len(transfers) : FitsInt4(x) /\ transfers[i].id = IdValue(x)}

\* C33: GET /transfers/{id} by an authenticated user answers 200 with the
\* record of that id when the user is its sender or its recipient, 403
\* without the record when the record exists and the user is neither, and
\* 404 when no record has that id.
TransferReadAccess ==
    \A u \in Accounts : \A x \in PathIds :
        LET r == get_transfer_by_id(u, x) IN
        IF RecordsWithId(x) = {}
        THEN r.status = 404 /\ r.body = NoRecord
        ELSE \A i \in RecordsWithId(x) :
                IF u \in {transfers[i].from_user_id, transfers[i].to_user_id}
                THEN /\ r.status = 200
                     /\ r.body.id = transfers[i].id
                     /\ r.body.amount = transfers[i].amount
                     /\ r.body.from_username = username[transfers[i].from_user_id]
                     /\ r.body.to_username = username[transfers[i].to_user_id]
                ELSE r.status = 403 /\ r.body = NoRecord

\* the same answers, asked only for the ids that fit a 4-byte integer
TransferReadAccessInt4 ==
    \A u \in Accounts : \A x \in {y \in PathIds : FitsInt4(y)} :
        LET r == get_transfer_by_id(u, x) IN
        IF RecordsWithId(x) = {}
        THEN r.status = 404 /\ r.body = NoRecord
        ELSE \A i \in RecordsWithId(x) :
                IF u \in {transfers[i].from_user_id, transfers[i].to_user_id}
                THEN r.status = 200 /\ r.body = TransferResponse(transfers[i])
                ELSE r.status = 403 /\ r.body = NoRecord

\* C34: the amount a transfer, deposit or withdraw request runs its handler
\* with, that is the validated amount normalised to 2 fractional digits, is
\* greater than 0.
ValidatedAmountsPositive ==
    \A p \in Procs :
        (InFlight(p) /\ kind[p] \in {"transfer", "deposit", "withdraw"})
            => amount[p] > 0

\* ---------------------------------------------------------------- authentication
\* Requests of every kind that needs authentication, with the credentials of
\* user 1, of user 2 or credentials that match no account (3); the bodies
\* carry an amount of 0.00 or of 0.01.
AuthAmounts == {0, 10}

\* a GET request arrives: get_current_user authenticates it (401 when the
\* credentials match no account), then the handler starts
ReadArrive(p, k, name, first) ==
    /\ NextSlot(p)
    /\ kind' = [kind EXCEPT ![p] = k]
    /\ LET user == UserByUsername(name) IN
        /\ current_user' = [current_user EXCEPT ![p] = user]
        /\ IF user = NoUser
           THEN Respond(p, 401, "credentials", NoRecord)
           ELSE /\ Goto(p, first)
                /\ UNCHANGED <<recipient, read_balance>>
    /\ UNCHANGED <<dbVars, to_username, amount, txVars, wrote>>

\* GET /balance/
BalanceArrives(p) ==
    \E name \in Names : ReadArrive(p, "balance", name, "get_balance")

\* balance = await user_crud.get_balance(current_user.id)
GetBalance(p) ==
    /\ pc[p] = "get_balance"
    /\ IF current_user[p] \notin Accounts
       THEN Respond(p, 404, "user_not_found", NoRecord)
       ELSE Respond(p, 200, "balance", balance[current_user[p]])
    /\ UNCHANGED <<dbVars, reqVars, txVars, wrote>>

\* GET /transfers/
HistoryArrives(p) ==
    \E name \in Names : ReadArrive(p, "history", name, "get_user_transfers")

\* transfers = await transfer_crud.get_user_transfers(current_user.id, limit,
\* offset)
GetUserTransfers(p) ==
    /\ pc[p] = "get_user_transfers"
    /\ \E limit \in HistoryLimits, offset \in HistoryOffsets :
        \E L \in get_user_transfers(current_user[p], limit, offset) :
            Respond(p, 200, "transfers", L)
    /\ UNCHANGED <<dbVars, reqVars, txVars, wrote>>

AuthTransferArrives(p) ==
    \E name \in Names, to \in {1, 2}, raw \in AuthAmounts :
        Arrive(p, "transfer", name, to, raw, "lookup_recipient")

AuthDepositArrives(p) ==
    \E name \in Names, raw \in AuthAmounts :
        Arrive(p, "deposit", name, 0, raw, "deposit_get_balance")

AuthWithdrawArrives(p) ==
    \E name \in Names, raw \in AuthAmounts :
        Arrive(p, "withdraw", name, 0, raw, "withdraw_get_balance")

NextAuth ==
    \E p \in Procs :
        \/ AuthTransferArrives(p)
        \/ LookupRecipient(p)
        \/ LockSender(p)
        \/ LockReceiver(p)
        \/ Debit(p)
        \/ Credit(p)
        \/ InsertTransfer(p)
        \/ Commit(p)
        \/ GetTransfer(p)
        \/ DeadlockDetected(p)
        \/ AuthDepositArrives(p)
        \/ DepositGetBalance(p)
        \/ DepositUpdateBalance(p)
        \/ AuthWithdrawArrives(p)
        \/ WithdrawGetBalance(p)
        \/ WithdrawUpdateBalance(p)
        \/ BalanceArrives(p)
        \/ GetBalance(p)
        \/ HistoryArrives(p)
        \/ GetUserTransfers(p)

SpecAuth == Init /\ [][NextAuth]_vars

\* the credentials that match no account
NoAccountCredentials == {name \in Names : UserByUsername(name) = NoUser}

\* the first statement of the handler of each kind of request
AuthFirstStatement ==
    [transfer |-> "lookup_recipient", deposit |-> "deposit_get_balance",
     withdraw |-> "withdraw_get_balance", balance |-> "get_balance",
     history |-> "get_user_transfers"]

\* C35: a balance read, deposit, withdraw, transfer or transfer history
\* request whose credentials match no account ends with 401 in the step it
\* arrives in, whatever its body, with no balance and no ledger record
\* changed and nothing returned; a request answered 401 never ran a
\* statement of its handler and has committed nothing.
AuthenticationGate ==
    [][\A p \in Procs :
         /\ (pc[p] = "idle" /\ pc'[p] # "idle")
              => /\ \A name \in NoAccountCredentials :
                      ( \/ \E k \in {"transfer", "deposit", "withdraw"} :
                             \E to \in {0, 1, 2}, raw \in AuthAmounts :
                                Arrive(p, k, name, to, raw, AuthFirstStatement[k])
                        \/ \E k \in {"balance", "history"} :
                             ReadArrive(p, k, name, AuthFirstStatement[k]) )
                      => /\ pc'[p] = "done" /\ status'[p] = 401
                         /\ result'[p] = NoRecord
                         /\ balance' = balance /\ transfers' = transfers
                 /\ status'[p] = 401 => current_user'[p] = NoUser
         /\ (pc[p] # "idle" /\ pc'[p] # pc[p]) => status'[p] # 401
         /\ status'[p] = 401 => ~wrote'[p]]_vars

\* C35 witness: a deposit and a transfer history request, both with
\* credentials that match no account, were answered 401.
AuthenticationGateWitness ==
    \E p, q \in Procs :
        /\ Done(p) /\ kind[p] = "deposit" /\ status[p] = 401
        /\ Done(q) /\ kind[q] = "history" /\ status[q] = 401
        /\ current_user[p] = NoUser /\ current_user[q] = NoUser
        /\ transfers = <<>> /\ TotalBalance = initial

\* the statements that take a connection from the pool for themselves
\* (db.fetch_one, db.fetch_all, db.execute_query); the statements of the
\* transfer transaction run on the connection create_transfer holds
PoolStatements ==
    {"lookup_recipient", "get_transfer", "deposit_get_balance",
     "deposit_update", "withdraw_get_balance", "withdraw_update",
     "register_check", "register_insert", "get_balance", "get_user_transfers"}

\* C36: a request at a statement that takes a connection from the pool holds
\* no connection and no row lock, so a request waiting for a connection
\* holds nothing another request waits for; a request holding a connection
\* is at a statement that runs on it; the requests of a cycle of lock waits
\* all hold their connection; and the connections in use are at most one
\* per running request and at most max_size.
NoNestedAcquisition ==
    /\ \A p \in Procs :
          /\ pc[p] \in PoolStatements => (~conn[p] /\ held[p] = <<>>)
          /\ conn[p] => pc[p] \notin PoolStatements
          /\ InWaitCycle(p) => (conn[p] /\ pc[p] \notin PoolStatements)
    /\ Cardinality({p \in Procs : conn[p]}) <= Cardinality({p \in Procs : InFlight(p)})
    /\ Cardinality({p \in Procs : conn[p]}) <= max_size

\* C36 witness: one transfer has committed and is about to read its record
\* back on a connection of its own while another holds its connection and
\* both row locks.
NoNestedAcquisitionWitness ==
    \E p, q \in Procs :
        /\ pc[p] = "get_transfer" /\ ~conn[p]
        /\ pc[q] = "debit" /\ conn[q] /\ Len(held[q]) = 2

====
